---- MODULE Spec2Model ----
(***************************************************************************)
(* Model of print/validators.py: the validation pipeline                   *)
(* validate_file_against_config and the helpers it calls.                  *)
(*                                                                         *)
(* Conventions.                                                            *)
(*  - An optional Python value (None or a value) is a sequence of length   *)
(*    0 or 1: << >> is None, <<v>> is v.                                   *)
(*  - A file extension is a sequence of one-character strings, so that     *)
(*    str.lower() is computed character by character.                      *)
(*  - Lengths are exact rationals.  A PDF length is an integer number of   *)
(*    1/SCALE mm (0.352778 mm per point is PT_TO_MM / SCALE).  An image    *)
(*    length is a numerator over the denominator 10 * dpi (25.4 mm per     *)
(*    inch is MM_PER_INCH_X10 / 10).                                       *)
(*  - An entry of errors or warnings is a triple <<kind, a, b>>: the kind  *)
(*    of message and the two numbers it is formatted with (0 when unused). *)
(***************************************************************************)
EXTENDS Integers, Sequences, FiniteSets

VARIABLES
    file_obj,        \* the upload: raw extension, size, content
    config,          \* the order configuration
    PDF2_AVAILABLE,  \* process-wide capability flag
    pos,             \* read position of the file stream
    lastOp,          \* last operation on the stream: "none", "seek", "read"
    reads,           \* history: every content read, with the position it started at
    file_info,       \* result of get_file_info
    errors,
    warnings,
    stage4,          \* history of the dimension stage
    verdict,         \* the returned dict, << >> before the return
    pc               \* position in validate_file_against_config

vars == <<file_obj, config, PDF2_AVAILABLE, pos, lastOp, reads, file_info,
          errors, warnings, stage4, verdict, pc>>

----------------------------------------------------------------------------
(* Bounds of the model *)

MaxPages == 2
MaxPos == 2

(* Program constants *)

TOLERANCE_MM == 2
max_size_mb == 10
DEFAULT_DPI == 72
LOW_DPI == 150
PT_TO_MM == 352778
SCALE == 1000000
MM_PER_INCH_X10 == 254
CM_TO_MM == 10

max_size_bytes == max_size_mb * 1024 * 1024

----------------------------------------------------------------------------
(* Small helpers *)

Abs(x) == IF x < 0 THEN -x ELSE x

\* Python truthiness of an optional number: not None and not 0
Truthy(opt) == opt # << >> /\ opt[1] # 0

\* Python truthiness of an optional string: not None and not ''
TruthyStr(opt) == opt # << >> /\ opt[1] # ""

LowerChar(c) ==
    CASE c = "P" -> "p"
      [] c = "D" -> "d"
      [] c = "F" -> "f"
      [] c = "N" -> "n"
      [] c = "G" -> "g"
      [] c = "J" -> "j"
      [] c = "E" -> "e"
      [] c = "T" -> "t"
      [] c = "X" -> "x"
      [] OTHER -> c

Lower(s) == [i \in 1..Len(s) |-> LowerChar(s[i])]

EXT_PDF == <<".", "p", "d", "f">>
EXT_JPG == <<".", "j", "p", "g">>
EXT_JPEG == <<".", "j", "p", "e", "g">>
EXT_PNG == <<".", "p", "n", "g">>

SUPPORTED_EXTENSIONS == {EXT_PDF, EXT_JPG, EXT_JPEG, EXT_PNG}
IMAGE_EXTENSIONS == {EXT_JPG, EXT_JPEG, EXT_PNG}

FORMAT_KEYS == {"A3", "A4", "A5"}

FORMAT_DIMENSIONS(k) ==
    CASE k = "A3" -> <<297, 420>>
      [] k = "A4" -> <<210, 297>>
      [] k = "A5" -> <<148, 210>>

----------------------------------------------------------------------------
(* Inputs *)

RawExtensions ==
    { EXT_PDF, <<".", "P", "D", "F">>, EXT_PNG, EXT_JPG,
      <<".", "J", "P", "E", "G">>, <<".", "t", "x", "t">> }

Sizes == {max_size_bytes, max_size_bytes + 1}

PageCounts == (0..MaxPages) \cup {101}

PdfBoxes == { <<595, 842>>, <<842, 595>>, <<210, 297>>, <<567, 850>> }

PdfContents ==
    { [kind |-> "pdf", pages |-> 0, w |-> 0, h |-> 0, dpi |-> << >>] }
    \cup
    { [kind |-> "pdf", pages |-> p, w |-> b[1], h |-> b[2], dpi |-> << >>] :
        p \in PageCounts \ {0}, b \in PdfBoxes }

ImageContents ==
    { [kind |-> "img", pages |-> 0, w |-> g[1], h |-> g[2], dpi |-> g[3]] :
        g \in { <<2480, 3508, <<300>> >>,
                <<3508, 2480, <<300>> >>,
                <<2480, 3508, <<96>> >>,
                <<1240, 1754, <<150>> >>,
                <<1240, 1754, <<149>> >>,
                <<595, 842, << >> >>,
                <<595, 842, <<0>> >>,
                <<2000, 3000, <<254>> >>,
                <<3000, 2000, <<254>> >> } }

JunkContents == { [kind |-> "junk", pages |-> 0, w |-> 0, h |-> 0, dpi |-> << >>] }

Contents == PdfContents \cup ImageContents \cup JunkContents

Formats ==
    { [format_type |-> "petit", small_format |-> <<"A4">>, largeur |-> << >>, hauteur |-> << >>],
      [format_type |-> "petit", small_format |-> <<"A5">>, largeur |-> << >>, hauteur |-> << >>],
      [format_type |-> "petit", small_format |-> <<"A6">>, largeur |-> <<20>>, hauteur |-> <<30>>],
      [format_type |-> "petit", small_format |-> << >>, largeur |-> << >>, hauteur |-> << >>],
      [format_type |-> "grand", small_format |-> << >>, largeur |-> <<20>>, hauteur |-> <<30>>],
      [format_type |-> "grand", small_format |-> << >>, largeur |-> <<30>>, hauteur |-> <<20>>],
      [format_type |-> "grand", small_format |-> <<"A4">>, largeur |-> <<0>>, hauteur |-> <<30>>],
      [format_type |-> "grand", small_format |-> << >>, largeur |-> <<21>>, hauteur |-> << >>] }

BookPages == { << >> } \cup { <<n>> : n \in PageCounts }

Duplexes == {"recto", "recto_verso"}

Configs ==
    { [format_type |-> f.format_type, small_format |-> f.small_format,
       largeur |-> f.largeur, hauteur |-> f.hauteur,
       is_book |-> b, book_pages |-> bp, duplex |-> d] :
        f \in Formats, b \in BOOLEAN, bp \in BookPages, d \in Duplexes }

----------------------------------------------------------------------------
(* The libraries, as black boxes over the content of the file *)

\* pypdf.PdfReader(file_obj): fails on anything that is not a PDF
PdfReader(content) ==
    [fault |-> content.kind # "pdf", pages |-> content.pages,
     w |-> content.w, h |-> content.h]

\* PIL.Image.open(file_obj): fails on anything that is not an image
ImageOpen(content) ==
    [fault |-> content.kind # "img", w |-> content.w, h |-> content.h,
     dpi |-> IF content.dpi = << >> THEN DEFAULT_DPI ELSE content.dpi[1]]

----------------------------------------------------------------------------
(* Pure functions of the module *)

get_file_info(f) == [size |-> f.size, extension |-> Lower(f.ext)]

\* the expected size in mm, << >> for None
get_expected_dimensions(c) ==
    IF c.format_type = "petit" /\ TruthyStr(c.small_format)
    THEN IF c.small_format[1] \in FORMAT_KEYS
         THEN <<FORMAT_DIMENSIONS(c.small_format[1])>>
         ELSE << >>
    ELSE IF c.format_type = "grand" /\ Truthy(c.largeur) /\ Truthy(c.hauteur)
         THEN << <<c.largeur[1] * CM_TO_MM, c.hauteur[1] * CM_TO_MM>> >>
         ELSE << >>


\* what an extractor hands back: (is_valid, details) plus, for the history,
\* the sizes it compared; raised marks an exception leaving the function
ExtractionResult(is_valid, is_dict, has_dpi, dpi, cmp, raised) ==
    [is_valid |-> is_valid, is_dict |-> is_dict, has_dpi |-> has_dpi,
     dpi |-> dpi, cmp |-> cmp, raised |-> raised]

\* portrait reordering of a measured pair
Portrait(w, h) == IF w > h THEN <<h, w>> ELSE <<w, h>>

\* abs(found - expected) <= TOLERANCE_MM, found in 1/den mm, expected in mm
WithinTolerance(found, expected, den) ==
    Abs(found - expected * den) <= TOLERANCE_MM * den

\* the comparison both extractors end with
Compare(found, ew, eh, den) ==
    [ok |-> WithinTolerance(found[1], ew, den) /\ WithinTolerance(found[2], eh, den),
     fw |-> found[1], fh |-> found[2], ew |-> ew, eh |-> eh, den |-> den]

validate_pdf_dimensions(content, ew, eh, available) ==
    IF ~available
    THEN ExtractionResult(TRUE, TRUE, FALSE, 0, << >>, FALSE)
    ELSE LET pdf_reader == PdfReader(content) IN
         IF pdf_reader.fault
         THEN ExtractionResult(FALSE, FALSE, FALSE, 0, << >>, FALSE)
         ELSE IF pdf_reader.pages = 0
         THEN ExtractionResult(FALSE, FALSE, FALSE, 0, << >>, FALSE)
         ELSE LET found == Portrait(pdf_reader.w * PT_TO_MM, pdf_reader.h * PT_TO_MM)
                  c == Compare(found, ew, eh, SCALE)
              IN ExtractionResult(c.ok, TRUE, FALSE, 0, <<c>>, FALSE)

\* validate_image_dimensions without its try/except
validate_image_dimensionsNoCatch(content, ew, eh) ==
    LET image == ImageOpen(content) IN
    IF image.fault
    THEN ExtractionResult(FALSE, FALSE, FALSE, 0, << >>, TRUE)
    ELSE LET dpi_horizontal == image.dpi
             used == IF dpi_horizontal > 0 THEN dpi_horizontal ELSE DEFAULT_DPI
             found == Portrait(image.w * MM_PER_INCH_X10, image.h * MM_PER_INCH_X10)
             c == Compare(found, ew, eh, 10 * used)
         IN ExtractionResult(c.ok, TRUE, TRUE, dpi_horizontal, <<c>>, FALSE)

validate_image_dimensions(content, ew, eh) ==
    LET image == ImageOpen(content) IN
    IF image.fault
    THEN ExtractionResult(FALSE, FALSE, FALSE, 0, << >>, FALSE)
    ELSE LET dpi_horizontal == image.dpi
             used == IF dpi_horizontal > 0 THEN dpi_horizontal ELSE DEFAULT_DPI
             found == Portrait(image.w * MM_PER_INCH_X10, image.h * MM_PER_INCH_X10)
             c == Compare(found, ew, eh, 10 * used)
         IN ExtractionResult(c.ok, TRUE, TRUE, dpi_horizontal, <<c>>, FALSE)

\* count_pages comparing the counts with a tolerance of one page
count_pagesTolerant(content, expected_pages) ==
    LET pdf_reader == PdfReader(content) IN
    IF pdf_reader.fault
    THEN [errs |-> << <<"PdfRead", 0, 0>> >>, raised |-> FALSE]
    ELSE IF Abs(pdf_reader.pages - expected_pages) > 1
         THEN [errs |-> << <<"PageCount", pdf_reader.pages, expected_pages>> >>,
               raised |-> FALSE]
         ELSE [errs |-> << >>, raised |-> FALSE]

\* lines 190-205: the page count of a book, with its try/except
count_pages(content, expected_pages) ==
    LET pdf_reader == PdfReader(content) IN
    IF pdf_reader.fault
    THEN [errs |-> << <<"PdfRead", 0, 0>> >>, raised |-> FALSE]
    ELSE IF pdf_reader.pages # expected_pages
         THEN [errs |-> << <<"PageCount", pdf_reader.pages, expected_pages>> >>,
               raised |-> FALSE]
         ELSE [errs |-> << >>, raised |-> FALSE]

\* the size limit with >= for >
TooLargeInclusive(size) == size >= max_size_bytes

\* line 211
TooLarge(size) == size > max_size_bytes

\* the gate of the dimension stage without its "not errors"
DimensionGateIgnoringErrors(expected_dimensions, available, errs) ==
    expected_dimensions # << >> /\ available

\* line 217
DimensionGate(expected_dimensions, available, errs) ==
    expected_dimensions # << >> /\ available /\ errs = << >>

\* line 225
PdfDimensionError(r) == ~r.is_valid /\ ~r.is_dict

\* line 230
ImageDimensionError(r) == ~r.is_valid

\* the resolution test with <= for <
LowResolutionInclusive(r) == r.is_dict /\ r.has_dpi /\ r.dpi <= LOW_DPI

\* line 234
LowResolution(r) == r.is_dict /\ r.has_dpi /\ r.dpi < LOW_DPI

\* the parity test asking for an odd count
ParityAdvisoryEven(c) ==
    /\ c.duplex = "recto_verso"
    /\ c.is_book /\ Truthy(c.book_pages)
    /\ c.book_pages[1] % 2 = 0

\* lines 238-241
ParityAdvisory(c) ==
    /\ c.duplex = "recto_verso"
    /\ c.is_book /\ Truthy(c.book_pages)
    /\ c.book_pages[1] % 2 # 0

----------------------------------------------------------------------------
(* The pipeline *)

NoStage4 ==
    [entered |-> FALSE, gate |-> FALSE, invoked |-> "none", errs_in |-> << >>,
     warns_in |-> << >>, errs_out |-> << >>, warns_out |-> << >>, cmp |-> << >>,
     decoded |-> FALSE]

Init ==
    /\ file_obj \in [ext : RawExtensions, size : Sizes, content : Contents]
    /\ config \in Configs
    /\ PDF2_AVAILABLE \in BOOLEAN
    /\ pos \in {0, MaxPos}
    /\ lastOp = "none"
    /\ reads = << >>
    /\ file_info = << >>
    /\ errors = << >>
    /\ warnings = << >>
    /\ stage4 = NoStage4
    /\ verdict = << >>
    /\ pc = "start"

Verdict(errs, warns) ==
    << [is_valid |-> Len(errs) = 0, errors |-> errs, warnings |-> warns] >>

\* a read of the content by a library: logged, and it leaves the stream
\* somewhere after its start
ReadContent(stage) ==
    /\ reads' = Append(reads, [stage |-> stage, pos |-> pos, prev |-> lastOp])
    /\ pos' \in 1..MaxPos
    /\ lastOp' = "read"

Seek0 ==
    /\ pos' = 0
    /\ lastOp' = "seek"

\* lines 151-160
FormatCheck ==
    /\ pc = "start"
    /\ file_info' = <<get_file_info(file_obj)>>
    /\ errors' = IF get_file_info(file_obj).extension \notin SUPPORTED_EXTENSIONS
                 THEN << <<"Format", 0, 0>> >>
                 ELSE << >>
    /\ pc' = "book"
    /\ UNCHANGED <<file_obj, config, PDF2_AVAILABLE, pos, lastOp, reads,
                   warnings, stage4, verdict>>

\* BookPolicy without the early return of line 172
BookPolicyNoReturn ==
    /\ pc = "book"
    /\ IF ~config.is_book
       THEN /\ pc' = "size"
            /\ UNCHANGED <<errors, verdict, pos, lastOp>>
       ELSE IF file_info[1].extension # EXT_PDF
       THEN /\ errors' = Append(errors, <<"BookFormat", 0, 0>>)
            /\ pc' = "size"
            /\ UNCHANGED <<verdict, pos, lastOp>>
       ELSE IF Truthy(config.book_pages)
       THEN /\ Seek0
            /\ pc' = "count"
            /\ UNCHANGED <<errors, verdict>>
       ELSE /\ pc' = "size"
            /\ UNCHANGED <<errors, verdict, pos, lastOp>>
    /\ UNCHANGED <<file_obj, config, PDF2_AVAILABLE, reads, file_info,
                   warnings, stage4>>

\* lines 164-184
BookPolicy ==
    /\ pc = "book"
    /\ IF ~config.is_book
       THEN /\ pc' = "size"
            /\ UNCHANGED <<errors, verdict, pos, lastOp>>
       ELSE IF file_info[1].extension # EXT_PDF
       THEN /\ errors' = Append(errors, <<"BookFormat", 0, 0>>)
            /\ verdict' = << [is_valid |-> FALSE, errors |-> errors',
                              warnings |-> warnings] >>
            /\ pc' = "done"
            /\ UNCHANGED <<pos, lastOp>>
       ELSE IF Truthy(config.book_pages)
       THEN /\ Seek0
            /\ pc' = "count"
            /\ UNCHANGED <<errors, verdict>>
       ELSE /\ pc' = "size"
            /\ UNCHANGED <<errors, verdict, pos, lastOp>>
    /\ UNCHANGED <<file_obj, config, PDF2_AVAILABLE, reads, file_info,
                   warnings, stage4>>

\* lines 186-205
CountPages ==
    /\ pc = "count"
    /\ IF ~PDF2_AVAILABLE
       THEN /\ errors' = Append(errors, <<"PdfUnavailable", 0, 0>>)
            /\ pc' = "size"
            /\ UNCHANGED <<pos, lastOp, reads>>
       ELSE LET r == count_pages(file_obj.content, config.book_pages[1]) IN
            /\ ReadContent("count")
            /\ errors' = errors \o r.errs
            /\ pc' = IF r.raised THEN "raised" ELSE "size"
    /\ UNCHANGED <<file_obj, config, PDF2_AVAILABLE, file_info, warnings,
                   stage4, verdict>>

\* lines 208-212
SizeLimit ==
    /\ pc = "size"
    /\ errors' = IF errors = << >> /\ TooLarge(file_info[1].size)
                 THEN Append(errors, <<"TooLarge", file_info[1].size, max_size_mb>>)
                 ELSE errors
    /\ pc' = "dims"
    /\ UNCHANGED <<file_obj, config, PDF2_AVAILABLE, pos, lastOp, reads,
                   file_info, warnings, stage4, verdict>>

\* DimensionCheck without the seek(0) of line 221
DimensionCheckNoSeek ==
    /\ pc = "dims"
    /\ LET expected_dimensions == get_expected_dimensions(config)
           gate == expected_dimensions # << >> /\ PDF2_AVAILABLE /\ errors = << >>
       IN IF gate
          THEN /\ stage4' = [stage4 EXCEPT !.entered = TRUE, !.gate = TRUE,
                                           !.errs_in = errors, !.warns_in = warnings]
               /\ pc' = "extract"
          ELSE /\ stage4' = [stage4 EXCEPT !.entered = TRUE,
                                           !.errs_in = errors, !.warns_in = warnings,
                                           !.errs_out = errors, !.warns_out = warnings]
               /\ pc' = "duplex"
    /\ UNCHANGED <<file_obj, config, PDF2_AVAILABLE, pos, lastOp, reads,
                   file_info, errors, warnings, verdict>>

\* lines 215-221
DimensionCheck ==
    /\ pc = "dims"
    /\ LET expected_dimensions == get_expected_dimensions(config)
           gate == DimensionGate(expected_dimensions, PDF2_AVAILABLE, errors)
       IN IF gate
          THEN /\ Seek0
               /\ stage4' = [stage4 EXCEPT !.entered = TRUE, !.gate = TRUE,
                                           !.errs_in = errors, !.warns_in = warnings]
               /\ pc' = "extract"
          ELSE /\ stage4' = [stage4 EXCEPT !.entered = TRUE,
                                           !.errs_in = errors, !.warns_in = warnings,
                                           !.errs_out = errors, !.warns_out = warnings]
               /\ pc' = "duplex"
               /\ UNCHANGED <<pos, lastOp>>
    /\ UNCHANGED <<file_obj, config, PDF2_AVAILABLE, reads, file_info, errors,
                   warnings, verdict>>

\* lines 223-226
ExtractPdf ==
    /\ pc = "extract"
    /\ file_info[1].extension = EXT_PDF
    /\ LET e == get_expected_dimensions(config)[1]
           r == validate_pdf_dimensions(file_obj.content, e[1], e[2], PDF2_AVAILABLE)
       IN /\ ReadContent("pdf")
          /\ errors' = IF PdfDimensionError(r)
                       THEN Append(errors, <<"PdfDims", e[1], e[2]>>)
                       ELSE errors
          /\ stage4' = [stage4 EXCEPT !.invoked = "pdf", !.cmp = r.cmp,
                                      !.decoded = r.is_dict,
                                      !.errs_out = errors', !.warns_out = warnings]
          /\ pc' = IF r.raised THEN "raised" ELSE "duplex"
    /\ UNCHANGED <<file_obj, config, PDF2_AVAILABLE, file_info, warnings, verdict>>

\* lines 228-235
ExtractImage ==
    /\ pc = "extract"
    /\ file_info[1].extension \in IMAGE_EXTENSIONS
    /\ LET e == get_expected_dimensions(config)[1]
           r == validate_image_dimensions(file_obj.content, e[1], e[2])
       IN /\ ReadContent("image")
          /\ errors' = IF ImageDimensionError(r)
                       THEN Append(errors, <<"ImgDims", e[1], e[2]>>)
                       ELSE errors
          /\ warnings' = IF LowResolution(r)
                         THEN Append(warnings, <<"LowDpi", r.dpi, 0>>)
                         ELSE warnings
          /\ stage4' = [stage4 EXCEPT !.invoked = "image", !.cmp = r.cmp,
                                      !.decoded = r.is_dict,
                                      !.errs_out = errors', !.warns_out = warnings']
          /\ pc' = IF r.raised THEN "raised" ELSE "duplex"
    /\ UNCHANGED <<file_obj, config, PDF2_AVAILABLE, file_info, verdict>>

\* lines 238-242
DuplexAdvisory ==
    /\ pc = "duplex"
    /\ warnings' = IF ParityAdvisory(config)
                   THEN Append(warnings, <<"Parity", 0, 0>>)
                   ELSE warnings
    /\ pc' = "ret"
    /\ UNCHANGED <<file_obj, config, PDF2_AVAILABLE, pos, lastOp, reads,
                   file_info, errors, stage4, verdict>>

\* lines 250-255
Return ==
    /\ pc = "ret"
    /\ verdict' = Verdict(errors, warnings)
    /\ pc' = "done"
    /\ UNCHANGED <<file_obj, config, PDF2_AVAILABLE, pos, lastOp, reads,
                   file_info, errors, warnings, stage4>>

Next ==
    \/ FormatCheck
    \/ BookPolicy
    \/ CountPages
    \/ SizeLimit
    \/ DimensionCheck
    \/ ExtractPdf
    \/ ExtractImage
    \/ DuplexAdvisory
    \/ Return

Spec == Init /\ [][Next]_vars

----------------------------------------------------------------------------
(* Vocabulary of the properties *)

Has(seq, kind) == \E i \in 1..Len(seq) : seq[i][1] = kind

Read(stage) == \E i \in 1..Len(reads) : reads[i].stage = stage

Returned == pc = "done"

\* the inputs on which stage 2 returns early
BookWithoutPdf == config.is_book /\ Lower(file_obj.ext) # EXT_PDF

BookFormatError == <<"BookFormat", 0, 0>>

A4Config == config.format_type = "petit" /\ config.small_format = <<"A4">>

\* the errors recorded by stages 1 and 2
EarlyErrors ==
    SelectSeq(errors, LAMBDA e : e[1] \in {"Format", "BookFormat", "PdfUnavailable",
                                          "PageCount", "PdfRead"})

----------------------------------------------------------------------------
(* C1 *)

\* C1 as stated: a book order with any non-PDF extension returns with
\* is_valid false, exactly one error (the book-format error), no warning,
\* and no later stage has run.
C1_ExactlyOneError ==
    (Returned /\ BookWithoutPdf) =>
        /\ verdict[1].is_valid = FALSE
        /\ verdict[1].errors = <<BookFormatError>>
        /\ verdict[1].warnings = << >>
        /\ ~stage4.entered /\ reads = << >>

\* C1 amended: a book order with a non-PDF extension returns at stage 2 with
\* is_valid false, no warning, and errors holding the book-format error alone
\* when the extension is .jpg, .jpeg or .png, and the unsupported-format
\* error of stage 1 followed by the book-format error otherwise; no later
\* stage has run (no read, no dimension stage, no size or parity message).
C1_ShortCircuit ==
    (Returned /\ BookWithoutPdf) =>
        /\ verdict[1].is_valid = FALSE
        /\ verdict[1].errors =
              IF Lower(file_obj.ext) \in {EXT_JPG, EXT_JPEG, EXT_PNG}
              THEN <<BookFormatError>>
              ELSE << <<"Format", 0, 0>>, BookFormatError >>
        /\ verdict[1].warnings = << >>
        /\ ~stage4.entered /\ reads = << >>

\* a book order with an oversized .png, an odd page count and duplex printing
\* has returned with the book-format error alone
C1_Witness ==
    /\ Returned
    /\ config.is_book /\ file_obj.ext = EXT_PNG
    /\ file_obj.size > max_size_bytes
    /\ config.book_pages = <<101>> /\ config.duplex = "recto_verso"
    /\ get_expected_dimensions(config) # << >>
    /\ verdict[1].errors = <<BookFormatError>>

----------------------------------------------------------------------------
(* C2 *)

\* C2: when the dimension check ran on a PDF whose first page parsed and the
\* measured size is out of tolerance, a dimension error naming the expected
\* size is in errors and the verdict is invalid.
C2_PdfMismatchIsError ==
    (Returned /\ stage4.invoked = "pdf" /\ stage4.cmp # << >>) =>
        LET c == stage4.cmp[1] IN
        (Abs(c.fw - c.ew * c.den) > 2 * c.den \/ Abs(c.fh - c.eh * c.den) > 2 * c.den)
            => /\ <<"PdfDims", c.ew, c.eh>> \in {errors[i] : i \in 1..Len(errors)}
               /\ verdict[1].is_valid = FALSE

----------------------------------------------------------------------------
(* C3 *)

\* C3: every size that enters the tolerance comparison, extracted or
\* expected, has width <= height.
C3_PortraitBothSides ==
    stage4.cmp # << >> =>
        /\ stage4.cmp[1].fw <= stage4.cmp[1].fh
        /\ stage4.cmp[1].ew <= stage4.cmp[1].eh

----------------------------------------------------------------------------
(* C4 *)

\* what C4 asks of a verdict, for a book order with a .pdf file
PageCountRule ==
    LET f == file_obj.content
        n == config.book_pages[1]
        parsed == f.kind = "pdf"
    IN /\ verdict[1].is_valid => (PDF2_AVAILABLE /\ parsed /\ f.pages = n)
       /\ ~PDF2_AVAILABLE =>
             (Has(errors, "PdfUnavailable") /\ ~verdict[1].is_valid)
       /\ (PDF2_AVAILABLE /\ parsed /\ f.pages # n) =>
             /\ <<"PageCount", f.pages, n>> \in {errors[i] : i \in 1..Len(errors)}
             /\ ~verdict[1].is_valid

\* C4 as stated: for a book order with a .pdf file and book_pages set (not
\* None), the verdict is valid only if the capability is available and the
\* page count equals book_pages; unavailability and a differing count each
\* append their error.
C4_PageCountWhenSet ==
    (Returned /\ config.is_book /\ Lower(file_obj.ext) = EXT_PDF
       /\ config.book_pages # << >>) => PageCountRule

\* C4 amended: the same for book_pages set to a non-zero value (the code
\* tests the truth value of book_pages, so 0 skips the page count).
C4_PageCountWhenNonZero ==
    (Returned /\ config.is_book /\ Lower(file_obj.ext) = EXT_PDF
       /\ config.book_pages # << >> /\ config.book_pages[1] # 0) => PageCountRule

\* a one-page PDF against book_pages = 2 was rejected with both counts
C4_Witness ==
    /\ Returned
    /\ config.is_book /\ file_obj.ext = EXT_PDF /\ PDF2_AVAILABLE
    /\ config.book_pages = <<2>>
    /\ file_obj.content.kind = "pdf" /\ file_obj.content.pages = 1
    /\ errors = << <<"PageCount", 1, 2>> >>
    /\ verdict[1].is_valid = FALSE

----------------------------------------------------------------------------
(* C5 *)

\* C5: in a returned verdict the size error is present exactly when stages 1
\* and 2 recorded no error and the size exceeds 10485760 bytes.
C5_SizeLimit ==
    Returned =>
        (Has(verdict[1].errors, "TooLarge")
            <=> (EarlyErrors = << >> /\ file_obj.size > 10 * 1024 * 1024))

\* a file of exactly 10485760 bytes passed the size stage and was accepted
C5_Witness ==
    /\ Returned
    /\ file_obj.size = 10485760
    /\ ~config.is_book
    /\ verdict[1].is_valid

----------------------------------------------------------------------------
(* C6 *)

\* C6: an extractor is invoked only if, at the entry of stage 4, an expected
\* size exists, the capability is available and errors is empty; otherwise
\* stage 4 leaves errors and warnings as it found them.
C6_DimensionGating ==
    stage4.entered =>
        LET open == /\ get_expected_dimensions(config) # << >>
                    /\ PDF2_AVAILABLE
                    /\ stage4.errs_in = << >>
        IN /\ (pc = "extract" \/ stage4.invoked # "none" \/ Read("pdf")
                  \/ Read("image")) => open
           /\ (~open /\ pc \in {"duplex", "ret", "done"}) =>
                 /\ stage4.errs_out = stage4.errs_in
                 /\ stage4.warns_out = stage4.warns_in
                 /\ errors = stage4.errs_in
                 /\ (pc = "done" => verdict[1].errors = stage4.errs_in)

\* an oversized file with an expected size and the capability available went
\* through stage 4 without an extraction
C6_Witness ==
    /\ Returned
    /\ get_expected_dimensions(config) # << >> /\ PDF2_AVAILABLE
    /\ stage4.entered /\ stage4.invoked = "none"
    /\ errors = << <<"TooLarge", max_size_bytes + 1, max_size_mb>> >>

----------------------------------------------------------------------------
(* C7 *)

ImageDpi == IF file_obj.content.dpi = << >> THEN 72 ELSE file_obj.content.dpi[1]

IsImage(w, h, dpi) ==
    /\ file_obj.content.kind = "img"
    /\ file_obj.content.w = w /\ file_obj.content.h = h
    /\ file_obj.content.dpi = <<dpi>>

\* C7: when the dimension check ran on an image that decoded, the
\* low-resolution warning is present iff the horizontal DPI is below 150, a
\* mismatch is an error whatever the DPI; 2480x3508 px at 96 DPI against A4
\* carries the error and the warning, at 300 DPI neither.
C7_LowResolutionWarning ==
    (Returned /\ stage4.invoked = "image" /\ file_obj.content.kind = "img") =>
        LET c == stage4.cmp[1]
            mismatch == \/ Abs(c.fw - c.ew * c.den) > 2 * c.den
                        \/ Abs(c.fh - c.eh * c.den) > 2 * c.den
        IN /\ Has(verdict[1].warnings, "LowDpi") <=> ImageDpi < 150
           /\ Has(verdict[1].errors, "ImgDims") <=> mismatch
           /\ (A4Config /\ IsImage(2480, 3508, 96)) =>
                 /\ verdict[1].errors = << <<"ImgDims", 210, 297>> >>
                 /\ Has(verdict[1].warnings, "LowDpi")
           /\ (A4Config /\ IsImage(2480, 3508, 300)) =>
                 /\ verdict[1].errors = << >>
                 /\ ~Has(verdict[1].warnings, "LowDpi")

\* 2480x3508 px at 96 DPI against A4 returned the error and the warning
C7_Witness ==
    /\ Returned
    /\ A4Config /\ IsImage(2480, 3508, 96)
    /\ stage4.invoked = "image"
    /\ verdict[1].errors = << <<"ImgDims", 210, 297>> >>
    /\ verdict[1].warnings = << <<"LowDpi", 96, 0>> >>

----------------------------------------------------------------------------
(* C8 *)

\* C8: in a verdict that did not come from the stage-2 return, the parity
\* warning is present iff duplex is recto_verso, is_book, book_pages is set
\* and odd; stage 5 leaves errors as stage 4 left them, and is_valid follows
\* them; a 101-page book matching its PDF gets no page-count error and
\* exactly this warning.
C8_ParityAdvisory ==
    (Returned /\ ~BookWithoutPdf) =>
        /\ Has(verdict[1].warnings, "Parity") <=>
              /\ config.duplex = "recto_verso"
              /\ config.is_book
              /\ config.book_pages # << >>
              /\ config.book_pages[1] % 2 = 1
        /\ verdict[1].errors = stage4.errs_out
        /\ verdict[1].is_valid = (stage4.errs_out = << >>)
        /\ (/\ config.duplex = "recto_verso" /\ config.is_book
            /\ config.book_pages = <<101>> /\ PDF2_AVAILABLE
            /\ file_obj.content.kind = "pdf" /\ file_obj.content.pages = 101) =>
              /\ ~Has(verdict[1].errors, "PageCount")
              /\ verdict[1].warnings = << <<"Parity", 0, 0>> >>

\* the warning was appended after an earlier stage had recorded an error
C8_Witness ==
    /\ Returned
    /\ config.duplex = "recto_verso" /\ config.is_book
    /\ config.book_pages = <<101>>
    /\ file_obj.content.kind = "pdf" /\ file_obj.content.pages = 2
    /\ verdict[1].errors = << <<"PageCount", 2, 101>> >>
    /\ verdict[1].warnings = << <<"Parity", 0, 0>> >>

----------------------------------------------------------------------------
(* C9 *)

\* C9: no exception leaves the pipeline, and a verdict returned after a
\* failure of the PDF parser (page count or dimension check, an empty PDF
\* included) or of the image decoder is invalid and carries an error for it.
C9_NoFaultEscapes ==
    /\ pc # "raised"
    /\ Returned =>
          /\ (Read("count") /\ file_obj.content.kind # "pdf") =>
                (Has(verdict[1].errors, "PdfRead") /\ ~verdict[1].is_valid)
          /\ (Read("pdf")
                /\ (file_obj.content.kind # "pdf" \/ file_obj.content.pages = 0)) =>
                (Has(verdict[1].errors, "PdfDims") /\ ~verdict[1].is_valid)
          /\ (Read("image") /\ file_obj.content.kind # "img") =>
                (Has(verdict[1].errors, "ImgDims") /\ ~verdict[1].is_valid)

\* the image decoder failed in stage 4 and the verdict carries the error
C9_Witness ==
    /\ Returned
    /\ Read("image") /\ file_obj.content.kind = "junk"
    /\ Has(verdict[1].errors, "ImgDims")
    /\ verdict[1].is_valid = FALSE

----------------------------------------------------------------------------
(* C10 *)

\* C10: every read of the file content started at offset 0, right after a
\* seek(0) with no other read in between.
C10_ResetBeforeRead ==
    \A i \in 1..Len(reads) : reads[i].pos = 0 /\ reads[i].prev = "seek"

\* a stage-4 PDF extraction followed the page-count read of stage 2
C10_Witness ==
    /\ Len(reads) = 2
    /\ reads[1].stage = "count" /\ reads[2].stage = "pdf"
    /\ reads[2].pos = 0

====
